---------------------------- MODULE Spec2Model ----------------------------
(***************************************************************************)
(* A model of openregistry.api: the document-service key setup done by     *)
(* main() in app.py (signing key, keyring) and the OCDS building-block     *)
(* models of models/ocds.py (conversion, partial-update import,            *)
(* validation, role-scoped serialization).                                 *)
(***************************************************************************)
EXTENDS Integers, Sequences, FiniteSets, TLC

VARIABLES
    settings,        \* the settings main() was last called with
    app,             \* "down", "running" (main returned) or "failed" (main raised)
    docservice_key,  \* config.registry.docservice_key: the active Signer
    keyring,         \* config.registry.keyring: key id -> Verifier
    issued,          \* signed document URLs handed out so far
    entity,          \* the model instance at hand: its class and its _data
    last,            \* the last operation on the instance and its outcome
    tokens,          \* how many uuid4() tokens have been generated
    clock,           \* the instant get_now() returns
    ITEM_CLASSIFICATIONS,  \* constants.ITEM_CLASSIFICATIONS: scheme -> codes
    roles            \* the classes' _options.roles: class -> role -> hidden fields

keyVars == <<settings, app, docservice_key, keyring, issued>>

entVars == <<entity, last, tokens, clock, ITEM_CLASSIFICATIONS, roles>>

vars == <<settings, app, docservice_key, keyring, issued,
          entity, last, tokens, clock, ITEM_CLASSIFICATIONS, roles>>

-----------------------------------------------------------------------------
(* Bounds of the model. *)

MaxDockeys == 2      \* most keys listed in the 'dockeys' setting
MaxIssued == 2       \* most signed URLs kept in flight
MaxDate == 2         \* the instants a period's dates are drawn from
MaxTokens == 3       \* most uuid4() tokens generated
MaxClock == 1        \* the latest instant get_now() returns
MaxList == 1         \* most elements of a list of nested models
MaxTail == 1         \* longest second run of characters of a digest

-----------------------------------------------------------------------------
(* Keys.  A public key is its hex encoding, split into the first 8 hex     *)
(* characters and the remaining 56; two of the keys share their first 8.   *)

Keys == { [id |-> "0a1b2c3d", rest |-> "e1"],
          [id |-> "0a1b2c3d", rest |-> "e2"],
          [id |-> "77f08a42", rest |-> "e3"] }

NoKey == [id |-> "", rest |-> ""]

\* A 'dockeys' entry that is not hexadecimal.
BadHex == [id |-> "zzzzzzzz", rest |-> "zz"]

Docs == {"doc1", "doc2"}

\* key[:8]
KeyID(key) == key.id

\* What the 'dockey' setting can hold: absent from the settings, '', a string
\* that is not hexadecimal, hexadecimal of the wrong length, or the hex of a
\* 32-byte seed (named here by the public key the seed derives).
DockeySettings ==
    { [kind |-> k, key |-> NoKey] : k \in {"absent", "empty", "nothex", "badlen"} }
        \cup { [kind |-> "seed", key |-> k] : k \in Keys }

SeqsUpTo(S, n) == UNION { [1..m -> S] : m \in 1..n }

\* What the 'dockeys' setting can hold: absent, or key strings joined by '\0'
\* (split('\0') never gives an empty list).
DockeysSettings ==
    { [present |-> FALSE, keys |-> <<>>] }
        \cup { [present |-> TRUE, keys |-> s] :
                 s \in SeqsUpTo(Keys \cup {BadHex}, MaxDockeys) }

Settings == [dockey : DockeySettings, dockeys : DockeysSettings]

NoSettings == [dockey |-> [kind |-> "absent", key |-> NoKey],
               dockeys |-> [present |-> FALSE, keys |-> <<>>]]

EmptyKeyring == [i \in {} |-> NoKey]

\* settings.get('dockey', '').decode('hex') raises for a string that is not hex.
DecodesHex(s) == s.dockey.kind # "nothex"

\* Signer(seed): a seed of the wrong length raises ValueError.
SignerRaises(s) == s.dockey.kind = "badlen"

\* Signer(seed): an empty seed is falsy, and Signer then generates a key pair.
SignerGenerates(s) == s.dockey.kind \in {"absent", "empty"}

\* The keys a Signer built from the setting can hold.
SignerKeys(s) == IF SignerGenerates(s) THEN Keys ELSE {s.dockey.key}

\* dockeys.split('\0')
DockeysList(s, dockey) ==
    IF s.dockeys.present THEN s.dockeys.keys ELSE <<dockey>>

\* Verifier(key) raises when key is not hexadecimal.
VerifierRaises(keys) == \E i \in 1..Len(keys) : keys[i] = BadHex

\* The keyring with only dockeys' first entry registered.
KeyringFirstOnly(keys) == [i \in {KeyID(keys[1])} |-> keys[1]]

\* for key in dockeys.split('\0'): keyring[key[:8]] = Verifier(key)
RECURSIVE KeyringOfRec(_, _)
KeyringOfRec(keys, n) ==
    IF n = 0 THEN EmptyKeyring
    ELSE LET prev == KeyringOfRec(keys, n - 1)
         IN [i \in DOMAIN prev \cup {KeyID(keys[n])} |->
                IF i = KeyID(keys[n]) THEN keys[n] ELSE prev[i]]

KeyringOf(keys) == KeyringOfRec(keys, Len(keys))

\* main() raises: the registry it was filling is dropped.
MainFails(s) ==
    /\ settings' = s
    /\ app' = "failed"
    /\ docservice_key' = NoKey
    /\ keyring' = EmptyKeyring
    /\ UNCHANGED issued
    /\ UNCHANGED entVars

\* main() returns the application.
MainReturns(s, dockey) ==
    /\ settings' = s
    /\ app' = "running"
    /\ docservice_key' = dockey
    /\ keyring' = KeyringOf(DockeysList(s, dockey))
    /\ UNCHANGED issued
    /\ UNCHANGED entVars

\* main(global_config, **settings): a start or a restart of the process.
Main ==
    \E s \in Settings :
        IF ~DecodesHex(s) \/ SignerRaises(s)
        THEN MainFails(s)
        ELSE \E dockey \in SignerKeys(s) :
                IF VerifierRaises(DockeysList(s, dockey))
                THEN MainFails(s)
                ELSE MainReturns(s, dockey)

\* sign(document): the URL carries the active key's id and a signature by
\* the active key.
SignUrl ==
    /\ app = "running"
    /\ Cardinality(issued) < MaxIssued
    /\ \E d \in Docs :
          issued' = issued \cup
             {[doc |-> d, kid |-> KeyID(docservice_key), key |-> docservice_key]}
    /\ UNCHANGED <<settings, app, docservice_key, keyring>>
    /\ UNCHANGED entVars

\* A URL is no longer kept.
DropUrl ==
    /\ \E u \in issued : issued' = issued \ {u}
    /\ UNCHANGED <<settings, app, docservice_key, keyring>>
    /\ UNCHANGED entVars

\* verify(url)
Verify(u) ==
    IF u.kid \notin DOMAIN keyring THEN "unknown key"
    ELSE IF keyring[u.kid] # u.key THEN "signature mismatch"
    ELSE "ok"

-----------------------------------------------------------------------------
(* Field values.  A field of _data holds None or a value; a value v is     *)
(* written <<v>>, so that None compares with a value of any type.          *)

None == <<>>
Some(v) == <<v>>
Val(x) == x[1]

\* A field descriptor: its type, required flag, default, validators and, for
\* ModelType and ListType(ModelType), the nested class.
F(type, required, default, checks, nested) ==
    [type |-> type, required |-> required, default |-> default,
     checks |-> checks, nested |-> nested]

StringType == F("string", FALSE, "none", {}, "")
StringRequired == F("string", TRUE, "none", {}, "")
BaseRequired == F("base", TRUE, "none", {}, "")
URLType == F("string", FALSE, "none", {"url"}, "")
MD5Type == F("string", FALSE, "none", {}, "")
IsoDateTimeType == F("date", FALSE, "none", {}, "")
ModelType(class, required) == F("model", required, "none", {}, class)
ListType(class, default) == F("list", FALSE, default, {}, class)

\* class Value(Model)
Value ==
    [amount |-> F("float", TRUE, "none", {"min_value"}, ""),
     currency |-> F("string", TRUE, "DEFAULT_CURRENCY", {"length3"}, ""),
     valueAddedTaxIncluded |-> F("bool", TRUE, "True", {}, "")]

\* class Period(Model)
Period ==
    [startDate |-> IsoDateTimeType,
     endDate |-> IsoDateTimeType]

\* class PeriodEndRequired(Period)
PeriodEndRequired ==
    [startDate |-> IsoDateTimeType,
     endDate |-> F("date", TRUE, "none", {}, "")]

\* class Classification(Model)
Classification ==
    [scheme |-> StringRequired,
     id |-> StringRequired,
     description |-> StringRequired,
     description_en |-> StringType,
     description_ru |-> StringType,
     uri |-> URLType]

\* class ItemClassification(Classification)
ItemClassification ==
    [scheme |-> F("string", TRUE, "DEFAULT_ITEM_CLASSIFICATION",
                  {"scheme_choices"}, ""),
     id |-> StringRequired,
     description |-> StringRequired,
     description_en |-> StringType,
     description_ru |-> StringType,
     uri |-> URLType]

\* class Unit(Model)
Unit ==
    [name |-> StringType,
     name_en |-> StringType,
     name_ru |-> StringType,
     value |-> ModelType("Value", FALSE),
     code |-> StringRequired]

\* class Address(Model)
Address ==
    [streetAddress |-> StringType,
     locality |-> StringType,
     region |-> StringType,
     postalCode |-> StringType,
     countryName |-> StringRequired,
     countryName_en |-> StringType,
     countryName_ru |-> StringType]

\* class Location(Model)
Location ==
    [latitude |-> BaseRequired,
     longitude |-> BaseRequired,
     elevation |-> F("base", FALSE, "none", {}, "")]

\* class Document(Model)
Document ==
    [id |-> F("string", TRUE, "uuid4", {}, ""),
     hash |-> StringType,
     documentOf |-> F("string", FALSE, "none", {"documentOf_choices"}, ""),
     documentType |-> F("string", FALSE, "none", {"documentType_choices"}, ""),
     title |-> StringRequired,
     title_en |-> StringType,
     title_ru |-> StringType,
     description |-> StringType,
     description_en |-> StringType,
     description_ru |-> StringType,
     format |-> F("string", TRUE, "none", {"format_regex"}, ""),
     url |-> StringRequired,
     datePublished |-> F("date", FALSE, "get_now", {}, ""),
     dateModified |-> F("date", FALSE, "get_now", {}, ""),
     language |-> StringType,
     relatedItem |-> MD5Type,
     author |-> StringType]

\* class Identifier(Model)
Identifier ==
    [scheme |-> F("string", TRUE, "none", {"identifier_choices"}, ""),
     id |-> BaseRequired,
     legalName |-> StringType,
     legalName_en |-> StringType,
     legalName_ru |-> StringType,
     uri |-> URLType]

\* class Item(Model)
Item ==
    [id |-> F("string", TRUE, "uuid4", {"min_length"}, ""),
     description |-> StringRequired,
     description_en |-> StringType,
     description_ru |-> StringType,
     classification |-> ModelType("ItemClassification", FALSE),
     additionalClassifications |-> ListType("Classification", "list"),
     unit |-> ModelType("Unit", FALSE),
     quantity |-> F("int", FALSE, "none", {}, ""),
     address |-> ModelType("Address", FALSE),
     location |-> ModelType("Location", FALSE),
     relatedLot |-> MD5Type]

\* class ContactPoint(Model)
ContactPoint ==
    [name |-> StringRequired,
     name_en |-> StringType,
     name_ru |-> StringType,
     email |-> F("string", FALSE, "none", {"email"}, ""),
     telephone |-> StringType,
     faxNumber |-> StringType,
     url |-> URLType]

\* class Organization(Model)
Organization ==
    [name |-> StringRequired,
     name_en |-> StringType,
     name_ru |-> StringType,
     identifier |-> ModelType("Identifier", TRUE),
     additionalIdentifiers |-> ListType("Identifier", "none"),
     address |-> ModelType("Address", TRUE),
     contactPoint |-> ModelType("ContactPoint", TRUE)]

\* The fields of a class, by the class's name.
Fields(class) ==
    CASE class = "Value" -> Value
      [] class = "Period" -> Period
      [] class = "PeriodEndRequired" -> PeriodEndRequired
      [] class = "Classification" -> Classification
      [] class = "ItemClassification" -> ItemClassification
      [] class = "Unit" -> Unit
      [] class = "Address" -> Address
      [] class = "Location" -> Location
      [] class = "Document" -> Document
      [] class = "Identifier" -> Identifier
      [] class = "Item" -> Item
      [] class = "ContactPoint" -> ContactPoint
      [] class = "Organization" -> Organization

FieldNames(class) == DOMAIN Fields(class)

-----------------------------------------------------------------------------
(* Constants of openregistry.api.constants and sample strings for the      *)
(* regular expressions of the string types.                                *)

DEFAULT_CURRENCY == "UAH"
DEFAULT_ITEM_CLASSIFICATION == "CAV-PS"

\* ITEM_CLASSIFICATIONS.keys() when class ItemClassification was defined.
DefinedSchemes == {"CAV-PS", "CPV"}

\* ITEM_CLASSIFICATIONS when the process starts.
InitialClassifications == [s \in DefinedSchemes |-> {}]

IDENTIFIER_CODES == {"UA-EDR"}
DOCUMENT_TYPES == {"notice", "technicalSpecifications"}

WellFormedEmail(s) == s \in {"qwe@example.test"}
WellFormedURL(s) == s \in {"http://www.dus.gov.ua/"}
MatchesFormat(s) == s \in {"application/pdf", "text/plain"}

RequiredMsg == "This field is required."
ChoicesMsg == "Value must be one of {0}."

\* The generators a default may call: uuid4().hex and get_now().
EnvAt(n, t) == [uuid |-> Some("uuid4-" \o ToString(n + 1)), now |-> Some(t)]
Env == EnvAt(tokens, clock)

\* field.default
Default(class, f, env) ==
    LET d == Fields(class)[f].default
    IN CASE d = "none" -> None
         [] d = "DEFAULT_CURRENCY" -> Some(DEFAULT_CURRENCY)
         [] d = "True" -> Some(TRUE)
         [] d = "DEFAULT_ITEM_CLASSIFICATION" -> Some(DEFAULT_ITEM_CLASSIFICATION)
         [] d = "uuid4" -> env.uuid
         [] d = "get_now" -> env.now
         [] d = "list" -> Some(<<>>)

\* An instance of a class with no field set.
Blank(class) == [f \in FieldNames(class) |-> None]

\* to_native that takes the string for the instant after the one it names.
IsoToNativeShifted(s) == s.iso + 1

\* IsoDateTimeType: an ISO 8601 string is written [iso |-> t] for the instant t.
IsoToNative(s) == s.iso
IsoToPrimitive(t) == [iso |-> t]

\* datetime.max: a datetime a field can be assigned, whose ISO string to_native
\* refuses with a ConversionError (OverflowError when the zone is applied).
DateTimeMax == MaxDate + 1
Overflows(s) == s.iso >= DateTimeMax

\* convert(cls, raw_data, partial=True): every field of the class gets the
\* converted raw value, or its default when the raw data has none for it.
RECURSIVE Convert(_, _, _)
ToNative(class, f, v, env) ==
    LET d == Fields(class)[f]
    IN CASE d.type = "date" -> Some(IsoToNative(Val(v)))
         [] d.type = "model" -> Some(Convert(d.nested, Val(v), env))
         [] d.type = "list" ->
              Some([i \in 1..Len(Val(v)) |-> Convert(d.nested, Val(v)[i], env)])
         [] OTHER -> v

Convert(class, raw, env) ==
    [f \in FieldNames(class) |->
        IF raw[f] # None THEN ToNative(class, f, raw[f], env)
        ELSE Default(class, f, env)]

\* Whether convert raises ModelConversionError: some date of the raw data, at
\* any depth, is a string that to_native refuses.
RECURSIVE ConvertRaises(_, _)
ConvertRaises(class, raw) ==
    \E f \in FieldNames(class) :
        LET d == Fields(class)[f]
        IN /\ raw[f] # None
           /\ CASE d.type = "date" -> Overflows(Val(raw[f]))
                [] d.type = "model" -> ConvertRaises(d.nested, Val(raw[f]))
                [] d.type = "list" ->
                     \E i \in DOMAIN Val(raw[f]) :
                        ConvertRaises(d.nested, Val(raw[f])[i])
                [] OTHER -> FALSE

\* Whether converting the raw data calls uuid4().
CallsUuid4(class, raw) ==
    \E f \in FieldNames(class) :
        Fields(class)[f].default = "uuid4" /\ raw[f] = None

\* Model.import_data of schematics: converted values that are None are
\* dropped, the rest is written.
ImportDataBase(class, data, raw, env) ==
    LET conv == Convert(class, raw, env)
        del_keys == { k \in DOMAIN conv : conv[k] = None }
    IN [k \in DOMAIN data |-> IF k \in del_keys THEN data[k] ELSE conv[k]]

\* Document.import_data: converted values equal to the instance's are
\* dropped, the rest is written.
DocumentImportData(data, raw, env) ==
    LET conv == Convert("Document", raw, env)
        del_keys == { k \in DOMAIN conv : conv[k] = data[k] }
    IN [k \in DOMAIN data |-> IF k \in del_keys THEN data[k] ELSE conv[k]]

\* instance.import_data(raw_data)
ImportDataOf(class, data, raw, env) ==
    IF class = "Document" THEN DocumentImportData(data, raw, env)
    ELSE ImportDataBase(class, data, raw, env)

-----------------------------------------------------------------------------
(* Validation.  Errors are a set of [path, msg]: the path of field names   *)
(* to the failing field and the message.                                   *)

Err(f, m) == [path |-> <<f>>, msg |-> m]
Under(f, e) == [path |-> <<f>> \o e.path, msg |-> e.msg]

\* Python truth of a string field: None and '' are false.
Truthy(v) == v # None /\ Val(v) # ""

\* The validators of a field's type, on a value that is not None.
CheckErrors(c, v) ==
    CASE c = "min_value" ->
           IF Val(v) < 0 THEN {"Float value should be greater than 0."} ELSE {}
      [] c = "length3" ->
           IF Len(Val(v)) > 3 THEN {"String value is too long."}
           ELSE IF Len(Val(v)) < 3 THEN {"String value is too short."}
           ELSE {}
      [] c = "min_length" ->
           IF Len(Val(v)) < 1 THEN {"String value is too short."} ELSE {}
      [] c = "scheme_choices" ->
           IF Val(v) \in DefinedSchemes THEN {} ELSE {ChoicesMsg}
      [] c = "identifier_choices" ->
           IF Val(v) \in IDENTIFIER_CODES THEN {} ELSE {ChoicesMsg}
      [] c = "documentOf_choices" ->
           IF Val(v) \in {"asset", "lot"} THEN {} ELSE {ChoicesMsg}
      [] c = "documentType_choices" ->
           IF Val(v) \in DOCUMENT_TYPES THEN {} ELSE {ChoicesMsg}
      [] c = "email" ->
           IF WellFormedEmail(Val(v)) THEN {}
           ELSE {"Not a well formed email address."}
      [] c = "url" ->
           IF WellFormedURL(Val(v)) THEN {} ELSE {"Not a well formed URL."}
      [] c = "format_regex" ->
           IF MatchesFormat(Val(v)) THEN {}
           ELSE {"String value did not match validation regex."}

\* Period.validate_startDate that also rejects a period of equal dates.
validate_startDate_strict(data, value) ==
    IF value # None /\ data.endDate # None /\ Val(data.endDate) <= Val(value)
    THEN {"period should begin before its end"}
    ELSE {}

\* Period.validate_startDate
validate_startDate(data, value) ==
    IF value # None /\ data.endDate # None /\ Val(data.endDate) < Val(value)
    THEN {"period should begin before its end"}
    ELSE {}

\* ItemClassification.validate_id that keeps the codes it saw when the
\* class was defined.
validate_id_cached(data, code) ==
    LET scheme == data.scheme
        available_codes ==
            IF scheme # None /\ Val(scheme) \in DOMAIN InitialClassifications
            THEN InitialClassifications[Val(scheme)]
            ELSE {}
    IN IF code = None \/ Val(code) \notin available_codes
       THEN {ChoicesMsg}
       ELSE {}

\* ItemClassification.validate_id
validate_id(data, code) ==
    LET scheme == data.scheme
        available_codes ==
            IF scheme # None /\ Val(scheme) \in DOMAIN ITEM_CLASSIFICATIONS
            THEN ITEM_CLASSIFICATIONS[Val(scheme)]
            ELSE {}
    IN IF code = None \/ Val(code) \notin available_codes
       THEN {ChoicesMsg}
       ELSE {}

\* ContactPoint.validate_email that looks at the email alone.
validate_email_only(data, value) ==
    IF ~Truthy(value)
    THEN {"telephone or email should be present"}
    ELSE {}

\* ContactPoint.validate_email
validate_email(data, value) ==
    IF ~Truthy(value) /\ ~Truthy(data.telephone)
    THEN {"telephone or email should be present"}
    ELSE {}

\* The validate_<field> functions of a class, run on the validated data.
ModelErrors(class, data) ==
    CASE class \in {"Period", "PeriodEndRequired"} ->
           { Err("startDate", m) : m \in validate_startDate(data, data.startDate) }
      [] class = "ItemClassification" ->
           { Err("id", m) : m \in validate_id(data, data.id) }
      [] class = "ContactPoint" ->
           { Err("email", m) : m \in validate_email(data, data.email) }
      [] OTHER -> {}

\* validate(cls, data): the import loop with each field's validators, which
\* gives a None field its default, then the class's validate_<field>
\* functions, which run only when no field failed.  A nested instance is
\* validated by its own validate(), which updates the nested instance.
\* Gives [ok, errors, data]: the outcome and the instance's _data afterwards.
RECURSIVE Validate(_, _, _)
ValidateField(class, f, v, env) ==
    LET d == Fields(class)[f]
    IN IF v = None
       THEN [errors |-> IF d.required THEN {Err(f, RequiredMsg)} ELSE {},
             value |-> None]
       ELSE IF d.type = "model"
       THEN LET r == Validate(d.nested, Val(v), env)
            IN [errors |-> { Under(f, e) : e \in r.errors },
                value |-> Some(r.data)]
       ELSE IF d.type = "list"
       THEN LET rs == [i \in 1..Len(Val(v)) |-> Validate(d.nested, Val(v)[i], env)]
            IN [errors |-> UNION { { Under(f, Under(ToString(i), e)) :
                                       e \in rs[i].errors } : i \in DOMAIN rs },
                value |-> Some([i \in DOMAIN rs |-> rs[i].data])]
       ELSE [errors |-> UNION { { Err(f, m) : m \in CheckErrors(c, v) } :
                                  c \in d.checks },
             value |-> v]

\* validate() that does not write the validated data back.
ValidateKeepsNone(class, data, env) ==
    LET names == FieldNames(class)
        res == [f \in names |->
                  ValidateField(class, f,
                      IF data[f] = None THEN Default(class, f, env) ELSE data[f],
                      env)]
        field_errors == UNION { res[f].errors : f \in names }
        validated == [f \in names |-> res[f].value]
        model_errors == ModelErrors(class, validated)
        kept == [f \in names |-> IF data[f] = None THEN None ELSE res[f].value]
    IN IF field_errors # {}
       THEN [ok |-> FALSE, errors |-> field_errors, data |-> kept]
       ELSE IF model_errors # {}
       THEN [ok |-> FALSE, errors |-> model_errors, data |-> kept]
       ELSE [ok |-> TRUE, errors |-> {}, data |-> kept]

\* validate() that stops at the first field that fails.
ValidateFirstField(class, data, env) ==
    LET names == FieldNames(class)
        res == [f \in names |->
                  ValidateField(class, f,
                      IF data[f] = None THEN Default(class, f, env) ELSE data[f],
                      env)]
        failing == { f \in names : res[f].errors # {} }
        validated == [f \in names |-> res[f].value]
        model_errors == ModelErrors(class, validated)
        kept == [f \in names |-> IF data[f] = None THEN None ELSE res[f].value]
    IN IF failing # {}
       THEN [ok |-> FALSE, errors |-> res[CHOOSE f \in failing : TRUE].errors,
             data |-> kept]
       ELSE IF model_errors # {}
       THEN [ok |-> FALSE, errors |-> model_errors, data |-> kept]
       ELSE [ok |-> TRUE, errors |-> {}, data |-> validated]

Validate(class, data, env) ==
    LET names == FieldNames(class)
        res == [f \in names |->
                  ValidateField(class, f,
                      IF data[f] = None THEN Default(class, f, env) ELSE data[f],
                      env)]
        field_errors == UNION { res[f].errors : f \in names }
        validated == [f \in names |-> res[f].value]
        model_errors == ModelErrors(class, validated)
        kept == [f \in names |-> IF data[f] = None THEN None ELSE res[f].value]
    IN IF field_errors # {}
       THEN [ok |-> FALSE, errors |-> field_errors, data |-> kept]
       ELSE IF model_errors # {}
       THEN [ok |-> FALSE, errors |-> model_errors, data |-> kept]
       ELSE [ok |-> TRUE, errors |-> {}, data |-> validated]

\* Whether validating the instance calls uuid4().
ValidateCallsUuid4(class, data) ==
    \E f \in FieldNames(class) :
        Fields(class)[f].default = "uuid4" /\ data[f] = None

-----------------------------------------------------------------------------
(* The inputs: sample values for the fields that the operations below set. *)

Dates == 1..MaxDate

\* The values (not None) that a field is given, by class and field.
Samples(class, f) ==
    CASE class = "Value" /\ f = "amount" -> {Some(-10), Some(0), Some(5)}
      [] class = "Value" /\ f = "currency" -> {Some("UAH"), Some("EURO")}
      [] class = "Value" /\ f = "valueAddedTaxIncluded" -> {Some(FALSE)}
      [] class \in {"Period", "PeriodEndRequired"} ->
           { Some(t) : t \in Dates \cup {DateTimeMax} }
      [] class = "Location" /\ f = "latitude" -> {Some("123.1234567890")}
      [] class = "Location" /\ f = "longitude" -> {Some("-123.1234567890")}
      [] class = "ContactPoint" /\ f = "name" -> {Some("name")}
      [] class = "ContactPoint" /\ f = "email" ->
           {Some(""), Some("qwe@example.test"), Some("qwe")}
      [] class = "ContactPoint" /\ f = "telephone" -> {Some(""), Some("0440000000")}
      [] class = "ItemClassification" /\ f = "scheme" ->
           {Some("CPV"), Some("CAV-PS"), Some("DK021")}
      [] class = "ItemClassification" /\ f = "id" -> {Some("test"), Some("test2")}
      [] class = "ItemClassification" /\ f = "description" -> {Some("Cartons")}
      [] class = "Document" /\ f = "id" -> {Some("0123456789abcdef")}
      [] class = "Document" /\ f = "title" -> {Some("title")}
      [] class = "Document" /\ f = "description" -> {Some("description")}
      [] class = "Document" /\ f = "datePublished" -> {Some(0)}
      [] OTHER -> {}

\* field.to_primitive(value): the raw form of a value.
ToPrimitive(class, f, v) ==
    IF Fields(class)[f].type = "date" THEN Some(IsoToPrimitive(Val(v))) ELSE v

\* The functions on the fields in S that give each field one of its options.
RECURSIVE Choices(_, _, _)
Choices(class, S, raw) ==
    IF S = {} THEN { [f \in {} |-> None] }
    ELSE LET f == CHOOSE x \in S : TRUE
             opts == {None} \cup
                     { IF raw THEN ToPrimitive(class, f, v) ELSE v :
                         v \in Samples(class, f) }
         IN { [g \in DOMAIN rest \cup {f} |-> IF g = f THEN o ELSE rest[g]] :
                rest \in Choices(class, S \ {f}, raw), o \in opts }

\* The raw data given to import_data.
RawInputs(class) == Choices(class, FieldNames(class), TRUE)

-----------------------------------------------------------------------------
(* Operations on the instance at hand. *)

Bump(called) == IF called THEN tokens + 1 ELSE tokens

\* What is kept of an operation: its outcome, the instance's data before it,
\* the raw data of an import and whether the import before it had the same
\* raw data, the item classifications a validation ran with, and the role,
\* the role tables and the result of a serialization, and the serialization
\* of the instance built again from that result.
NoOutcome ==
    [op |-> "none", ok |-> TRUE, errors |-> {}, before |-> <<>>,
     raw |-> None, repeat |-> FALSE, registry |-> <<>>,
     role |-> "", roles |-> <<>>, result |-> None, again |-> None]

\* instance.import_data(raw): nothing is written when convert raises.
ImportData ==
    \E raw \in RawInputs(entity.class) :
        LET called == CallsUuid4(entity.class, raw)
            raises == ConvertRaises(entity.class, raw)
        IN /\ called => tokens < MaxTokens
           /\ entity' = IF raises THEN entity
                         ELSE [entity EXCEPT
                  !.data = ImportDataOf(entity.class, entity.data, raw, Env)]
           /\ tokens' = Bump(called)
           /\ last' = [NoOutcome EXCEPT
                  !.op = "import_data", !.ok = ~raises,
                  !.before = entity.data, !.raw = raw,
                  !.repeat = (last.op = "import_data" /\ last.raw = raw)]
           /\ UNCHANGED <<clock, ITEM_CLASSIFICATIONS, roles>>
           /\ UNCHANGED keyVars

\* instance.<field> = value
Assign ==
    \E f \in FieldNames(entity.class) :
        \E v \in Samples(entity.class, f) \cup {None} :
           /\ Samples(entity.class, f) # {}
           /\ entity' = [entity EXCEPT !.data[f] = v]
           /\ last' = [NoOutcome EXCEPT !.op = "assign", !.before = entity.data]
           /\ UNCHANGED <<tokens, clock, ITEM_CLASSIFICATIONS, roles>>
           /\ UNCHANGED keyVars

\* instance.validate()
DoValidate ==
    LET called == ValidateCallsUuid4(entity.class, entity.data)
        r == Validate(entity.class, entity.data, Env)
    IN /\ called => tokens < MaxTokens
       /\ entity' = [entity EXCEPT !.data = r.data]
       /\ tokens' = Bump(called)
       /\ last' = [NoOutcome EXCEPT
              !.op = "validate", !.ok = r.ok, !.errors = r.errors,
              !.before = entity.data, !.registry = ITEM_CLASSIFICATIONS]
       /\ UNCHANGED <<clock, ITEM_CLASSIFICATIONS, roles>>
       /\ UNCHANGED keyVars

\* Time passes: get_now() returns a later instant.
Tick ==
    /\ clock < MaxClock
    /\ clock' = clock + 1
    /\ UNCHANGED <<entity, last, tokens, ITEM_CLASSIFICATIONS, roles>>
    /\ UNCHANGED keyVars

Schemes == {"CPV", "DK021"}
Codes == {"test"}

\* The registry of item classifications is updated: a code is registered
\* for a scheme or withdrawn from it.
UpdateClassifications ==
    /\ \E s \in Schemes, c \in Codes :
          LET now == IF s \in DOMAIN ITEM_CLASSIFICATIONS
                     THEN ITEM_CLASSIFICATIONS[s] ELSE {}
              new == IF c \in now THEN now \ {c} ELSE now \cup {c}
          IN ITEM_CLASSIFICATIONS' =
                [x \in DOMAIN ITEM_CLASSIFICATIONS \cup {s} |->
                    IF x = s THEN new ELSE ITEM_CLASSIFICATIONS[x]]
    /\ UNCHANGED <<entity, last, tokens, clock, roles>>
    /\ UNCHANGED keyVars

Classes == {"Value", "Period", "PeriodEndRequired", "Classification",
            "ItemClassification", "Unit", "Address", "Location", "Document",
            "Identifier", "Item", "ContactPoint", "Organization"}

\* Model.Options.roles
InitialRoles ==
    [c \in Classes |-> [r \in {"default", "embedded"} |-> {"__parent__"}]]

NoEntity == [class |-> "", data |-> <<>>]

\* cls(): an instance constructed from no data.
InitEntity(classes) ==
    /\ settings = NoSettings
    /\ app = "down"
    /\ docservice_key = NoKey
    /\ keyring = EmptyKeyring
    /\ issued = {}
    /\ clock = 0
    /\ ITEM_CLASSIFICATIONS = InitialClassifications
    /\ roles = InitialRoles
    /\ last = NoOutcome
    /\ \E c \in classes :
          /\ entity = [class |-> c, data |-> Convert(c, Blank(c), EnvAt(0, 0))]
          /\ tokens = IF CallsUuid4(c, Blank(c)) THEN 1 ELSE 0

NextEntity == ImportData \/ Assign \/ DoValidate

SpecValue == InitEntity({"Value"}) /\ [][NextEntity]_vars

SpecContact == InitEntity({"ContactPoint", "Location"}) /\ [][NextEntity]_vars

SpecPeriod == InitEntity({"Period", "PeriodEndRequired"}) /\ [][NextEntity]_vars

NextClassification == NextEntity \/ UpdateClassifications

SpecClassification ==
    InitEntity({"ItemClassification"}) /\ [][NextClassification]_vars

NextDocument == NextEntity \/ Tick

SpecDocument == InitEntity({"Document"}) /\ [][NextDocument]_vars

-----------------------------------------------------------------------------
(* Serialization under a role. *)

\* The fields a class hides for a role: the role's blacklist, or the default
\* role's when the class declares no such role.
Hidden(table, class, role) ==
    IF role \in DOMAIN table[class] THEN table[class][role]
    ELSE IF "default" \in DOMAIN table[class] THEN table[class]["default"]
    ELSE {}

\* The sequence without its None elements.
RECURSIVE Compact(_)
Compact(seq) ==
    IF seq = <<>> THEN <<>>
    ELSE IF Head(seq) = None THEN Compact(Tail(seq))
    ELSE <<Val(Head(seq))>> \o Compact(Tail(seq))

\* serialize(role) with every nested instance serialized under the default
\* role.
RECURSIVE SerializeNestedDefault(_, _, _, _)
SerializeNestedDefault(table, class, data, role) ==
    LET shaped(f) ==
            LET d == Fields(class)[f]
                v == data[f]
            IN CASE d.type = "model" ->
                      SerializeNestedDefault(table, d.nested, Val(v), "default")
                 [] d.type = "list" ->
                      LET items == Compact([i \in 1..Len(Val(v)) |->
                                     SerializeNestedDefault(table, d.nested,
                                                            Val(v)[i], "default")])
                      IN IF items = <<>> THEN None ELSE Some(items)
                 [] d.type = "date" -> Some(IsoToPrimitive(Val(v)))
                 [] OTHER -> v
        keys == { f \in FieldNames(class) \ Hidden(table, class, role) :
                    data[f] # None /\ shaped(f) # None }
    IN IF keys = {} THEN None ELSE Some([f \in keys |-> Val(shaped(f))])

\* serialize(role) that yields the mapping it built even when it has no key.
RECURSIVE SerializeEmptyMapping(_, _, _, _)
SerializeEmptyMapping(table, class, data, role) ==
    LET shaped(f) ==
            LET d == Fields(class)[f]
                v == data[f]
            IN CASE d.type = "model" ->
                      SerializeEmptyMapping(table, d.nested, Val(v), role)
                 [] d.type = "list" ->
                      Some(Compact([i \in 1..Len(Val(v)) |->
                              SerializeEmptyMapping(table, d.nested,
                                                    Val(v)[i], role)]))
                 [] d.type = "date" -> Some(IsoToPrimitive(Val(v)))
                 [] OTHER -> v
        keys == { f \in FieldNames(class) \ Hidden(table, class, role) :
                    data[f] # None }
    IN Some([f \in keys |-> Val(shaped(f))])

\* instance.serialize(role): the fields that hold a value and that the role
\* does not hide, nested instances serialized under the same role; None when
\* nothing is left.
RECURSIVE Serialize(_, _, _, _)
Serialize(table, class, data, role) ==
    LET shaped(f) ==
            LET d == Fields(class)[f]
                v == data[f]
            IN CASE d.type = "model" -> Serialize(table, d.nested, Val(v), role)
                 [] d.type = "list" ->
                      LET items == Compact([i \in 1..Len(Val(v)) |->
                                     Serialize(table, d.nested, Val(v)[i], role)])
                      IN IF items = <<>> THEN None ELSE Some(items)
                 [] d.type = "date" -> Some(IsoToPrimitive(Val(v)))
                 [] OTHER -> v
        keys == { f \in FieldNames(class) \ Hidden(table, class, role) :
                    data[f] # None /\ shaped(f) # None }
    IN IF keys = {} THEN None ELSE Some([f \in keys |-> Val(shaped(f))])

RoleNames == {"default", "view"}

\* instance.serialize(role)
DoSerialize ==
    /\ \E role \in RoleNames :
          last' = [NoOutcome EXCEPT
              !.op = "serialize", !.before = entity.data, !.role = role,
              !.roles = roles,
              !.result = Serialize(roles, entity.class, entity.data, role)]
    /\ UNCHANGED <<entity, tokens, clock, ITEM_CLASSIFICATIONS, roles>>
    /\ UNCHANGED keyVars

\* The blacklists that a class is given for the role 'view'.
Blacklists(class) ==
    CASE class = "Identifier" -> {{"id"}, {"legalName"}}
      [] class = "Item" -> {{"__parent__", "address"}}
      [] class = "Location" -> {{"latitude"}}

PatchedClasses == {"Identifier", "Item", "Location"}

\* mock.patch.dict('...<class>._options.roles', {'view': blacklist(...)})
PatchRoles ==
    /\ \E class \in PatchedClasses :
          \E hidden \in Blacklists(class) :
             /\ "view" \notin DOMAIN roles[class]
             /\ roles' = [roles EXCEPT ![class] =
                   [r \in DOMAIN @ \cup {"view"} |->
                       IF r = "view" THEN hidden ELSE @[r]]]
    /\ UNCHANGED <<entity, last, tokens, clock, ITEM_CLASSIFICATIONS>>
    /\ UNCHANGED keyVars

\* The patch ends: the class has its own roles again.
UnpatchRoles ==
    /\ \E class \in PatchedClasses :
          /\ "view" \in DOMAIN roles[class]
          /\ roles' = [roles EXCEPT ![class] = InitialRoles[class]]
    /\ UNCHANGED <<entity, last, tokens, clock, ITEM_CLASSIFICATIONS>>
    /\ UNCHANGED keyVars

IdentifierSamples ==
    { [Blank("Identifier") EXCEPT
          !.scheme = Some("UA-EDR"), !.id = i, !.legalName = l] :
        i \in {None, Some("00037256")}, l \in {None, Some("DUS")} }

LocationSamples ==
    { [Blank("Location") EXCEPT !.latitude = a, !.longitude = Some("567")] :
        a \in {None, Some("123")} }

AddressSamples == { [Blank("Address") EXCEPT !.countryName = Some("Ukraine")] }

\* The aggregates that are serialized.
Aggregates ==
    { [class |-> "Organization",
       data |-> [Blank("Organization") EXCEPT
                    !.name = Some("name"), !.identifier = i,
                    !.additionalIdentifiers = a]] :
        i \in {None} \cup { Some(x) : x \in IdentifierSamples },
        a \in {None} \cup
              { Some(s) : s \in SeqsUpTo(IdentifierSamples, MaxList) } }
    \cup
    { [class |-> "Item",
       data |-> [Blank("Item") EXCEPT
                    !.id = Some("0"), !.description = Some("description"),
                    !.additionalClassifications = Some(<<>>),
                    !.address = a, !.location = l]] :
        a \in {None} \cup { Some(x) : x \in AddressSamples },
        l \in {None} \cup { Some(x) : x \in LocationSamples } }

InitRoles ==
    /\ settings = NoSettings
    /\ app = "down"
    /\ docservice_key = NoKey
    /\ keyring = EmptyKeyring
    /\ issued = {}
    /\ tokens = 0
    /\ clock = 0
    /\ ITEM_CLASSIFICATIONS = InitialClassifications
    /\ roles = InitialRoles
    /\ last = NoOutcome
    /\ entity \in Aggregates

NextRoles == DoSerialize \/ PatchRoles \/ UnpatchRoles

SpecRoles == InitRoles /\ [][NextRoles]_vars

\* Aggregates whose nested instances hold no value: Organization(data) with
\* data = {'identifier': {}} or {'additionalIdentifiers': [{}]}, with and
\* without a name.
SparseAggregates ==
    { [class |-> "Organization",
       data |-> [Blank("Organization") EXCEPT
                    !.name = n, !.identifier = i,
                    !.additionalIdentifiers = a]] :
        n \in {None, Some("name")},
        i \in {None, Some(Blank("Identifier"))},
        a \in {None, Some(<<>>), Some(<<Blank("Identifier")>>)} }

\* The classes without defaulted fields whose fresh instances are serialized.
PlainClasses == {"Period", "PeriodEndRequired", "Location", "ContactPoint"}

\* cls() of a plain class, or an aggregate built from data.
InitSerialize ==
    /\ settings = NoSettings
    /\ app = "down"
    /\ docservice_key = NoKey
    /\ keyring = EmptyKeyring
    /\ issued = {}
    /\ tokens = 0
    /\ clock = 0
    /\ ITEM_CLASSIFICATIONS = InitialClassifications
    /\ roles = InitialRoles
    /\ last = NoOutcome
    /\ \/ \E c \in PlainClasses :
             entity = [class |-> c, data |-> Convert(c, Blank(c), EnvAt(0, 0))]
       \/ entity \in Aggregates \cup SparseAggregates

NextSerialize == Assign \/ DoSerialize

SpecSerialize == InitSerialize /\ [][NextSerialize]_vars

\* The raw data that a serialization is: a key the mapping lacks is a field
\* without raw value, at every depth; no mapping at all (None) is no data.
RECURSIVE FromPrimitive(_, _)
FromPrimitive(class, result) ==
    IF result = None THEN Blank(class)
    ELSE LET map == Val(result)
         IN [f \in FieldNames(class) |->
               IF f \notin DOMAIN map THEN None
               ELSE LET d == Fields(class)[f]
                    IN CASE d.type = "model" ->
                              Some(FromPrimitive(d.nested, Some(map[f])))
                         [] d.type = "list" ->
                              Some([i \in DOMAIN map[f] |->
                                      FromPrimitive(d.nested, Some(map[f][i]))])
                         [] OTHER -> Some(map[f])]

\* cls(instance.serialize()).serialize() of an instance that has just passed
\* validate(): the new instance is built by converting the serialization.
RoundTrip ==
    /\ last.op = "validate"
    /\ last.ok
    /\ LET s == Serialize(roles, entity.class, entity.data, "default")
           raw == FromPrimitive(entity.class, s)
           raises == ConvertRaises(entity.class, raw)
           called == ~raises /\ CallsUuid4(entity.class, raw)
       IN /\ called => tokens < MaxTokens
          /\ tokens' = Bump(called)
          /\ last' = [NoOutcome EXCEPT
                 !.op = "round_trip", !.ok = ~raises, !.before = entity.data,
                 !.role = "default", !.result = s,
                 !.again = IF raises THEN None
                           ELSE Serialize(roles, entity.class,
                                          Convert(entity.class, raw, Env),
                                          "default")]
    /\ UNCHANGED <<entity, clock, ITEM_CLASSIFICATIONS, roles>>
    /\ UNCHANGED keyVars

ContactPointSamples ==
    { [Blank("ContactPoint") EXCEPT
          !.name = Some("name"), !.telephone = Some("0440000000")] }

ClassificationSamples ==
    { [Blank("Classification") EXCEPT
          !.scheme = Some("CPV"), !.id = Some("17.21.1"),
          !.description = Some("Cartons")] }

\* Organization(data) and Item(data) with all that validate() requires but,
\* for some, an identifier's id or a location's latitude.
FullAggregates ==
    { [class |-> "Organization",
       data |-> [Blank("Organization") EXCEPT
                    !.name = Some("name"), !.identifier = Some(i),
                    !.additionalIdentifiers = a,
                    !.address = Some(ad), !.contactPoint = Some(c)]] :
        i \in IdentifierSamples,
        a \in {None} \cup
              { Some(s) : s \in SeqsUpTo(IdentifierSamples, MaxList) },
        ad \in AddressSamples, c \in ContactPointSamples }
    \cup
    { [class |-> "Item",
       data |-> [Blank("Item") EXCEPT
                    !.id = Some("0"), !.description = Some("description"),
                    !.additionalClassifications = Some(ac),
                    !.address = a, !.location = l]] :
        ac \in SeqsUpTo(ClassificationSamples, MaxList),
        a \in {None} \cup { Some(x) : x \in AddressSamples },
        l \in {None} \cup { Some(x) : x \in LocationSamples } }

\* Period(), PeriodEndRequired(), or an aggregate built from data.
InitRoundTrip ==
    /\ settings = NoSettings
    /\ app = "down"
    /\ docservice_key = NoKey
    /\ keyring = EmptyKeyring
    /\ issued = {}
    /\ tokens = 0
    /\ clock = 0
    /\ ITEM_CLASSIFICATIONS = InitialClassifications
    /\ roles = InitialRoles
    /\ last = NoOutcome
    /\ \/ \E c \in {"Period", "PeriodEndRequired"} :
             entity = [class |-> c, data |-> Convert(c, Blank(c), EnvAt(0, 0))]
       \/ entity \in FullAggregates

NextRoundTrip == Assign \/ DoValidate \/ RoundTrip

SpecRoundTrip == InitRoundTrip /\ [][NextRoundTrip]_vars

-----------------------------------------------------------------------------
(* HashType: values of the form scheme:hexdigest, written as the sequence  *)
(* of their characters.                                                    *)

Chars(scheme) ==
    CASE scheme = "md5" -> <<"m", "d", "5">>
      [] scheme = "sha1" -> <<"s", "h", "a", "1">>
      [] scheme = "sha256" -> <<"s", "h", "a", "2", "5", "6">>
      [] scheme = "sha512" -> <<"s", "h", "a", "5", "1", "2">>
      [] scheme = "test" -> <<"t", "e", "s", "t">>
      [] scheme = "" -> <<>>

\* The supported schemes and the number of hex characters of their digests.
algorithms == {"md5", "sha1", "sha256", "sha512"}

HexLength(scheme) ==
    CASE scheme = "md5" -> 32
      [] scheme = "sha1" -> 40
      [] scheme = "sha256" -> 64
      [] scheme = "sha512" -> 128

HexDigits == {"0", "1", "2", "5", "6", "9", "a", "d", "e", "f"}

\* The position of the first ':' of a value, 0 when it has none.
ColonAt(value) ==
    IF \E i \in DOMAIN value : value[i] = ":"
    THEN CHOOSE i \in DOMAIN value :
            value[i] = ":" /\ \A j \in 1..(i - 1) : value[j] # ":"
    ELSE 0

\* value.split(':', 1)
hash_type(value) == SubSeq(value, 1, ColonAt(value) - 1)
hash_value(value) == SubSeq(value, ColonAt(value) + 1, Len(value))

Supported(value) ==
    ColonAt(value) # 0 /\ \E a \in algorithms : hash_type(value) = Chars(a)

RightLength(value) ==
    \E a \in algorithms :
        hash_type(value) = Chars(a) /\ Len(hash_value(value)) = HexLength(a)

Hexadecimal(value) ==
    \A i \in DOMAIN hash_value(value) : hash_value(value)[i] \in HexDigits

Raised(kind, msg) == [ok |-> FALSE, kind |-> kind, msg |-> msg, value |-> None]

\* to_native that looks at the characters of the digest before its length.
HashToNativeHexFirst(value) ==
    IF ~Supported(value)
    THEN Raised("ValidationError", "Hash type is not supported.")
    ELSE IF ~Hexadecimal(value)
    THEN Raised("ConversionError", "Hash value is not hexadecimal.")
    ELSE IF ~RightLength(value)
    THEN Raised("ValidationError", "Hash value is wrong length.")
    ELSE [ok |-> TRUE, kind |-> "", msg |-> "", value |-> Some(value)]

\* HashType.to_native(value)
HashToNative(value) ==
    IF ~Supported(value)
    THEN Raised("ValidationError", "Hash type is not supported.")
    ELSE IF ~RightLength(value)
    THEN Raised("ValidationError", "Hash value is wrong length.")
    ELSE IF ~Hexadecimal(value)
    THEN Raised("ConversionError", "Hash value is not hexadecimal.")
    ELSE [ok |-> TRUE, kind |-> "", msg |-> "", value |-> Some(value)]

Repeat(c, n) == [i \in 1..n |-> c]

\* The scheme parts and the digest characters that values are made of.
SchemeParts == {"", "test", "md5", "sha512"}
DigestChars == {"a", "-", ":"}

\* The lengths of the first run of a digest: none, and those that reach or
\* miss the hex length of a scheme by at most MaxTail.
RunLengths ==
    {0} \cup { HexLength(a) - k : a \in {"md5", "sha512"}, k \in 0..MaxTail }

\* The values given to to_native: a scheme part, a ':' or none, and a digest
\* of a run of one character followed by a short run of another.
HashValues ==
    { Chars(s) \o colon \o Repeat(c1, n1) \o Repeat(c2, n2) :
        s \in SchemeParts, colon \in {<<>>, <<":">>},
        c1 \in DigestChars, n1 \in RunLengths,
        c2 \in DigestChars, n2 \in 0..MaxTail }

InitHash ==
    /\ settings = NoSettings
    /\ app = "down"
    /\ docservice_key = NoKey
    /\ keyring = EmptyKeyring
    /\ issued = {}
    /\ tokens = 0
    /\ clock = 0
    /\ ITEM_CLASSIFICATIONS = InitialClassifications
    /\ roles = InitialRoles
    /\ last = NoOutcome
    /\ \E value \in HashValues : entity = [class |-> "HashType", data |-> value]

\* hash.to_native(value)
DoHashToNative ==
    /\ last.op = "none"
    /\ LET r == HashToNative(entity.data)
       IN last' = [NoOutcome EXCEPT
              !.op = "to_native", !.ok = r.ok,
              !.errors = IF r.ok THEN {} ELSE {[kind |-> r.kind, msg |-> r.msg]},
              !.before = entity.data, !.result = r.value]
    /\ UNCHANGED <<entity, tokens, clock, ITEM_CLASSIFICATIONS, roles>>
    /\ UNCHANGED keyVars

NextHash == DoHashToNative

SpecHash == InitHash /\ [][NextHash]_vars

InitKeys ==
    /\ settings = NoSettings
    /\ app = "down"
    /\ docservice_key = NoKey
    /\ keyring = EmptyKeyring
    /\ issued = {}
    /\ entity = NoEntity
    /\ last = NoOutcome
    /\ tokens = 0
    /\ clock = 0
    /\ ITEM_CLASSIFICATIONS = InitialClassifications
    /\ roles = InitialRoles

NextKeys == Main \/ SignUrl \/ DropUrl

SpecKeys == InitKeys /\ [][NextKeys]_vars

-----------------------------------------------------------------------------
(* Claims about the signing key and the keyring. *)

\* The public key of the Signer that main() stored as the active signing key.
ActiveKeyInKeyring ==
    /\ KeyID(docservice_key) \in DOMAIN keyring
    /\ keyring[KeyID(docservice_key)] = docservice_key

\* C1: after main() returns, whatever 'dockey' and 'dockeys' were, the first 8
\* hex characters of the active signer's public key are a key of the keyring
\* and map to that key's verifier, also when 'dockeys' is supplied.
C1_ActiveKeyRegistered == app = "running" => ActiveKeyInKeyring

\* K's verifier is the keyring's entry for K's id.
InKeyring(k) == KeyID(k) \in DOMAIN keyring /\ keyring[KeyID(k)] = k

\* The running configuration registers K: K is listed for the keyring and no
\* key listed after it has the same first 8 hex characters.
Retained(k) ==
    /\ app = "running"
    /\ LET keys == DockeysList(settings, docservice_key)
       IN \E i \in 1..Len(keys) :
             /\ keys[i] = k
             /\ \A j \in (i + 1)..Len(keys) : KeyID(keys[j]) # KeyID(k)

C3_SigningKeyFromSettings ==
    app = "running" =>
        /\ settings.dockey.kind = "seed"
        /\ docservice_key = settings.dockey.key

-----------------------------------------------------------------------------
(* Claims about import_data and validate(). *)

\* The instance's data with the defaults that validate() would fill in.
Filled(class, data) ==
    [f \in FieldNames(class) |->
        IF data[f] = None THEN Default(class, f, Env) ELSE data[f]]

\* The fields that break a rule of their own: required and empty, or a value
\* that fails a validator of the field's type.
FieldViolations(class, data) ==
    { f \in FieldNames(class) :
        LET v == Filled(class, data)[f]
        IN IF v = None THEN Fields(class)[f].required
           ELSE \E c \in Fields(class)[f].checks : CheckErrors(c, v) # {} }

\* The fields whose validate_<field> function rejects the data.
CrossViolations(class, data) ==
    { e.path[1] : e \in ModelErrors(class, Filled(class, data)) }

\* The fields that the raised error names.
ErrorFields(errors) == { e.path[1] : e \in errors }

Validated == last.op = "validate"

\* C4: calling import_data(d) a second time directly after import_data(d)
\* changes no field of the entity.
C4_ImportDataIdempotent ==
    (last.op = "import_data" /\ last.repeat) => entity.data = last.before

\* C5 as stated: the field values are the same before and after validate(),
\* whether it succeeds or raises.
C5_ValidateIsPure == Validated => entity.data = last.before

\* C5 amended: validate() changes no field that holds a value and, when it
\* raises, no field at all; when it succeeds, each field that was None and
\* declares a default holds its default afterwards.
C5_ValidateFillsDefaults ==
    Validated =>
        \A f \in FieldNames(entity.class) :
            LET d == Fields(entity.class)[f].default
            IN IF last.before[f] # None \/ ~last.ok \/ d = "none"
               THEN entity.data[f] = last.before[f]
               ELSE /\ entity.data[f] # None
                    /\ d \notin {"uuid4", "get_now"}
                          => entity.data[f] = Default(entity.class, f, Env)

\* A Value whose currency was cleared validates and has its currency again.
C5_Witness ==
    /\ Validated
    /\ entity.class = "Value"
    /\ last.ok
    /\ last.before.currency = None
    /\ entity.data.currency = Some(DEFAULT_CURRENCY)

\* C6 as stated: the raised error has an entry for every violating field,
\* the fields that fail a cross-field validator included.
C6_ReportsEveryViolation ==
    Validated =>
        (FieldViolations(entity.class, last.before)
            \cup CrossViolations(entity.class, last.before))
                \subseteq ErrorFields(last.errors)

\* C6 amended: the raised error has an entry for every field that is
\* required and empty or fails a validator of its type; the cross-field
\* validators are reported, all of them, only when no such field exists.
C6_ReportsEveryFieldViolation ==
    Validated =>
        LET fv == FieldViolations(entity.class, last.before)
            cv == CrossViolations(entity.class, last.before)
        IN /\ ErrorFields(last.errors) = (IF fv # {} THEN fv ELSE cv)
           /\ last.ok <=> (fv = {} /\ cv = {})

\* Location() reports both latitude and longitude.
C6_Witness ==
    /\ Validated
    /\ entity.class = "Location"
    /\ last.errors = {Err("latitude", RequiredMsg), Err("longitude", RequiredMsg)}

\* The codes registered for the instance's scheme when validate() ran.
RegisteredCodes(data) ==
    LET scheme == Filled("ItemClassification", data).scheme
    IN IF Val(scheme) \in DOMAIN last.registry
       THEN last.registry[Val(scheme)]
       ELSE {}

IdRegistered(data) == data.id # None /\ Val(data.id) \in RegisteredCodes(data)

EmailOrTelephone(data) == Truthy(data.email) \/ Truthy(data.telephone)

EmailRule == Err("email", "telephone or email should be present")

PeriodRule == Err("startDate", "period should begin before its end")

\* C9: with both dates present validate() succeeds when startDate <= endDate
\* and fails with 'period should begin before its end' on startDate when
\* startDate > endDate; a Period with one date validates; a
\* PeriodEndRequired without endDate fails as required on endDate.
C9_PeriodOrdering ==
    (Validated /\ entity.class \in {"Period", "PeriodEndRequired"}) =>
        LET s == last.before.startDate
            e == last.before.endDate
        IN /\ (s # None /\ e # None /\ Val(s) <= Val(e)) => last.ok
           /\ (s # None /\ e # None /\ Val(s) > Val(e)) =>
                 (~last.ok /\ PeriodRule \in last.errors)
           /\ (entity.class = "Period" /\ (s = None) # (e = None)) => last.ok
           /\ (entity.class = "PeriodEndRequired" /\ e = None) =>
                 (~last.ok /\ Err("endDate", RequiredMsg) \in last.errors)

\* A period that begins after its end was validated, and so was one whose
\* dates are equal.
C9_Witness ==
    /\ Validated
    /\ entity.class \in {"Period", "PeriodEndRequired"}
    /\ last.before.startDate # None
    /\ last.before.endDate # None
    /\ Val(last.before.startDate) > Val(last.before.endDate)
    /\ last.errors = {PeriodRule}

-----------------------------------------------------------------------------
(* Claims about serialization. *)

\* The serialized nested instances of a field: the one of a ModelType field,
\* the elements of a ListType field, none when the field was left out.
NestedOutputs(result, f, type) ==
    IF result = None \/ f \notin DOMAIN Val(result) THEN {}
    ELSE IF type = "model" THEN {Val(result)[f]}
    ELSE { Val(result)[f][i] : i \in DOMAIN Val(result)[f] }

\* The nested instances that a field holds.
NestedInputs(data, f, type) ==
    IF data[f] = None THEN {}
    ELSE IF type = "model" THEN {Val(data[f])}
    ELSE { Val(data[f])[i] : i \in DOMAIN Val(data[f]) }

\* The fields of a class that hold nested instances.
NestedFields(class) ==
    { f \in FieldNames(class) : Fields(class)[f].type \in {"model", "list"} }

\* C10: serializing a parent under role R serializes every nested model,
\* single or list element, under R: a field that the nested class hides for R
\* is in no nested output, while under the default role a nested field that
\* holds a value is in the output.
C10_RoleReachesNested ==
    last.op = "serialize" =>
        \A f \in NestedFields(entity.class) :
            LET d == Fields(entity.class)[f]
                outs == NestedOutputs(last.result, f, d.type)
                ins == NestedInputs(last.before, f, d.type)
            IN /\ \A o \in outs :
                     DOMAIN o \cap Hidden(last.roles, d.nested, last.role) = {}
               /\ (last.role = "default" /\ f \notin Hidden(last.roles, entity.class, "default")) =>
                     \A n \in ins :
                        \A g \in FieldNames(d.nested) :
                           (n[g] # None /\ Fields(d.nested)[g].type \notin {"model", "list"})
                              => \E o \in outs : g \in DOMAIN o

\* An Organization was serialized under 'view' while Identifier hides id for
\* 'view': the identifier is there, without its id, which holds a value.
C10_Witness ==
    /\ last.op = "serialize"
    /\ entity.class = "Organization"
    /\ last.role = "view"
    /\ "view" \in DOMAIN last.roles["Identifier"]
    /\ last.roles["Identifier"]["view"] = {"id"}
    /\ last.before.identifier # None
    /\ Val(last.before.identifier).id # None
    /\ "identifier" \in DOMAIN Val(last.result)
    /\ "id" \notin DOMAIN Val(last.result).identifier
    /\ last.before.additionalIdentifiers # None
    /\ "additionalIdentifiers" \in DOMAIN Val(last.result)

-----------------------------------------------------------------------------
(* Claims about what serialize() includes. *)

Serialized == last.op = "serialize" /\ last.role = "default"

\* The fields of the instance that hold a value.
SetFields(data) == { f \in DOMAIN data : data[f] # None }

\* Whether an instance has something to show: a scalar field that holds a
\* value, a nested instance that has something to show, or a list with such
\* an element.
RECURSIVE HasContent(_, _)
ShowsField(class, data, f) ==
    LET d == Fields(class)[f]
    IN /\ data[f] # None
       /\ d.type = "model" => HasContent(d.nested, Val(data[f]))
       /\ d.type = "list" =>
             \E i \in DOMAIN Val(data[f]) : HasContent(d.nested, Val(data[f])[i])

HasContent(class, data) == \E f \in FieldNames(class) : ShowsField(class, data, f)

\* C11 as stated: serialize() yields None exactly when the entity has no field
\* set, and otherwise a mapping of exactly the fields that are set.
C11_NoneIffNoFieldSet ==
    Serialized =>
        /\ last.result = None <=> SetFields(last.before) = {}
        /\ last.result # None => DOMAIN Val(last.result) = SetFields(last.before)

\* C11 amended: serialize() yields a mapping of exactly the fields that hold
\* a value with something to show (a nested instance with no field set and a
\* list without such an element are left out, like a field set to None), each
\* scalar field with its value, and None exactly when there is no such field.
C11_NoneIffNothingToShow ==
    Serialized =>
        /\ last.result = None <=> ~HasContent(entity.class, last.before)
        /\ last.result # None =>
              /\ DOMAIN Val(last.result) =
                    { f \in FieldNames(entity.class) :
                        ShowsField(entity.class, last.before, f) }
              /\ \A f \in DOMAIN Val(last.result) :
                    Fields(entity.class)[f].type \notin {"model", "list", "date"}
                       => Val(last.result)[f] = Val(last.before[f])

\* A ContactPoint whose telephone was set to None and that still has its name
\* was serialized: the result has name and no telephone.
C11_Witness ==
    /\ Serialized
    /\ entity.class = "ContactPoint"
    /\ last.before.name # None
    /\ last.before.telephone = None
    /\ last.result # None
    /\ DOMAIN Val(last.result) = {"name"}

-----------------------------------------------------------------------------
(* Claims about the round trip through serialize() and conversion. *)

RoundTripped == last.op = "round_trip"

\* Whether an instance holds datetime.max in a date field, at any depth.
RECURSIVE HoldsDateTimeMax(_, _)
HoldsDateTimeMax(class, data) ==
    \E f \in FieldNames(class) :
        LET d == Fields(class)[f]
        IN /\ data[f] # None
           /\ CASE d.type = "date" -> Val(data[f]) = DateTimeMax
                [] d.type = "model" -> HoldsDateTimeMax(d.nested, Val(data[f]))
                [] d.type = "list" ->
                     \E i \in DOMAIN Val(data[f]) :
                        HoldsDateTimeMax(d.nested, Val(data[f])[i])
                [] OTHER -> FALSE

-----------------------------------------------------------------------------
(* Claims about the composite hash type. *)

Converted == last.op = "to_native"

HashError(kind, msg) == ~last.ok /\ last.errors = {[kind |-> kind, msg |-> msg]}

\* The characters of the value before and after its first ':'; the whole
\* value is the scheme part when it has no ':'.
SchemePart(value) ==
    IF ColonAt(value) = 0 THEN value ELSE SubSeq(value, 1, ColonAt(value) - 1)

DigestPart(value) ==
    IF ColonAt(value) = 0 THEN <<>>
    ELSE SubSeq(value, ColonAt(value) + 1, Len(value))

\* C13: to_native reports the first failing check of (1) the scheme is
\* supported, else 'Hash type is not supported.' as a validation error,
\* whatever the digest; (2) the digest has the scheme's hex length, else
\* 'Hash value is wrong length.' as a validation error, also when it is not
\* hexadecimal; (3) the digest is hexadecimal, else 'Hash value is not
\* hexadecimal.' as a conversion error; a value that passes is returned
\* unchanged.
C13_FirstFailingCheck ==
    Converted =>
        LET v == last.before
            known == ColonAt(v) # 0 /\
                     \E a \in algorithms : SchemePart(v) = Chars(a)
            long == \E a \in algorithms :
                       SchemePart(v) = Chars(a) /\ Len(DigestPart(v)) = HexLength(a)
            hex == \A i \in DOMAIN DigestPart(v) : DigestPart(v)[i] \in HexDigits
        IN CASE ~known ->
                  HashError("ValidationError", "Hash type is not supported.")
             [] known /\ ~long ->
                  HashError("ValidationError", "Hash value is wrong length.")
             [] known /\ long /\ ~hex ->
                  HashError("ConversionError", "Hash value is not hexadecimal.")
             [] OTHER -> last.ok /\ last.result = Some(v)

\* A value with a supported scheme whose digest is neither of the right
\* length nor hexadecimal was converted: the length is what is reported.
C13_Witness ==
    /\ Converted
    /\ SchemePart(last.before) = Chars("md5")
    /\ ColonAt(last.before) # 0
    /\ Len(DigestPart(last.before)) # HexLength("md5")
    /\ \E i \in DOMAIN DigestPart(last.before) :
          DigestPart(last.before)[i] \notin HexDigits
    /\ HashError("ValidationError", "Hash value is wrong length.")

-----------------------------------------------------------------------------
(* Claims about the merge of import_data. *)

Imported == last.op = "import_data" /\ last.ok

\* The fields that the raw data of the last import names.
Named == { f \in DOMAIN last.raw : last.raw[f] # None }

\* C14: import_data(d) changes only fields that d names; every field that d
\* does not name keeps its value, so a Document imported without id,
\* datePublished and dateModified keeps those three.
C14_MergeFrame ==
    Imported =>
        \A f \in FieldNames(entity.class) \ Named :
            entity.data[f] = last.before[f]

=============================================================================
